---- MODULE Spec2Model ----
(***************************************************************************)
(* A model of the ANSYS Mechanical automation scripts: contact creation,   *)
(* bolt pretension creation and bolt force extraction.  The host's project *)
(* document is the state; every script function is one atomic action (the  *)
(* host is single-threaded and synchronous).  A host call that can raise   *)
(* is decided by a set of failing call sites chosen with each action.      *)
(***************************************************************************)
EXTENDS Integers, Sequences, FiniteSets, TLC

VARIABLES
    objs,   \* the host document: the set of tree objects
    last,   \* the most recent call: its arguments, result and pre-state
    runs,   \* the entry-point runs so far
    config, \* the configuration the script under study is run with
    csv     \* the CSV output file: <<"absent">> or <<"open", rows>>

vars == <<objs, last, runs, config, csv>>

\* ------------------------------------------------------------------ bounds

MaxFaces == 2       \* faces of the larger named selection
MaxObjs == 5        \* tree objects in the document of the contact runs
MaxBoltObjs == 7    \* tree objects in the document of the bolt pretension runs
MaxRuns == 2        \* entry-point runs recorded
MaxFaults == 1      \* host calls that raise during one handler call
MaxSteps == 3       \* NumberOfSteps of the analysis
MaxListLen == 2     \* length of a configured time step list

\* ------------------------------------------------------------------- names
\* A name is a sequence of tokens; formatting concatenates, startswith is a
\* prefix test.

NsA == <<"A">>
NsB == <<"B">>
NsNames == {NsA, NsB}

RECURSIVE Digits(_)
Digits(n) ==
    IF n < 10 THEN <<n>> ELSE Digits(n \div 10) \o <<n % 10>>

DigitTok(d) ==
    CASE d = 0 -> "0" [] d = 1 -> "1" [] d = 2 -> "2" [] d = 3 -> "3"
      [] d = 4 -> "4" [] d = 5 -> "5" [] d = 6 -> "6" [] d = 7 -> "7"
      [] d = 8 -> "8" [] OTHER -> "9"

\* str(i) for a non-negative integer
StrInt(n) == [k \in 1..Len(Digits(n)) |-> DigitTok(Digits(n)[k])]

\* "<prefix>_<ns>"
Fmt1(prefix, ns) == <<prefix, "_">> \o ns

\* "<prefix>_<ns>_<i>"
Fmt2(prefix, ns, i) == <<prefix, "_">> \o ns \o <<"_">> \o StrInt(i)

\* "<prefix>_<ns>_"
Pat(prefix, ns) == <<prefix, "_">> \o ns \o <<"_">>

\* name.startswith(pattern)
StartsWith(name, pattern) ==
    /\ Len(pattern) <= Len(name)
    /\ SubSeq(name, 1, Len(pattern)) = pattern

\* ----------------------------------------------------------- host document
\* A tree object.  parent = 0 places it directly under its container (the
\* model, the coordinate systems, the connections, the solution); fresh marks
\* the objects added by the call in progress (history, not host state).

KNamedSelection == "NamedSelection"
KCoordinateSystem == "CoordinateSystem"
KConstructionGeometry == "ConstructionGeometry"
KSurface == "Surface"
KForceReaction == "ForceReaction"
KMomentReaction == "MomentReaction"
KGroup == "TreeGroupingFolder"
KContactRegion == "ContactRegion"
KBoltPretension == "BoltPretension"
KOther == "Other"

Obj(id, kind, name, parent) ==
    [id |-> id, kind |-> kind, name |-> name, parent |-> parent,
     faces |-> <<>>, face |-> 0, ref |-> 0, surf |-> 0, body |-> 0,
     load |-> 0, defby |-> "", ctype |-> "", fresh |-> TRUE]

Ids(S) == {o.id : o \in S}

\* the id the host gives the next object it adds
NewId(S) == CHOOSE i \in 1..(Cardinality(S) + 1) : i \notin Ids(S)

\* the name the host gives an object before the script names it
DefaultName(kind) == <<kind>>

\* host Add...(): a new object of the kind under parent, with the default name
HostAdd(S, kind, parent) == S \cup {Obj(NewId(S), kind, DefaultName(kind), parent)}

ById(S, id) == CHOOSE o \in S : o.id = id

\* property assignment on the object with the given id
SetName(S, id, name) ==
    {IF o.id = id THEN [o EXCEPT !.name = name] ELSE o : o \in S}

RECURSIVE Descendants(_, _)
Descendants(S, ids) ==
    LET more == {o.id : o \in {x \in S : x.parent \in ids}} \ ids
    IN  IF more = {} THEN ids ELSE Descendants(S, ids \cup more)

\* host obj.Delete(): the object goes, and everything under it
HostDelete(S, id) == {o \in S : o.id \notin Descendants(S, {id})}

\* every object starts a call as an old one
Age(S) == {[o EXCEPT !.fresh = FALSE] : o \in S}

\* enumeration order of the host: tree order, here ascending id
RECURSIVE InOrder(_)
InOrder(ids) ==
    IF ids = {} THEN <<>>
    ELSE LET m == CHOOSE i \in ids : \A j \in ids : i <= j
         IN  <<m>> \o InOrder(ids \ {m})

\* ExtAPI.DataModel.GetObjectsByName(name): all objects of any kind
ObjectsByName(S, name) == {o \in S : o.name = name}

\* container.GetChildren(category, True): all descendants of the category
GetChildren(S, kind) == {o \in S : o.kind = kind}

\* ------------------------------------------------- get_time_steps_to_process
\* A configuration value as YAML delivers it: its Python type and its value.

CfgStr(x) == [type |-> "str", s |-> x, l |-> <<>>]
CfgList(x) == [type |-> "list", s |-> "", l |-> x]
CfgTuple(x) == [type |-> "tuple", s |-> "", l |-> x]
CfgInt == [type |-> "int", s |-> "", l |-> <<>>]

StepLists == UNION {[1..k -> 0..(MaxSteps + 1)] : k \in 0..MaxListLen}

TimeStepConfigs ==
    {CfgStr("first_last"), CfgStr("all"), CfgStr("last"), CfgInt}
        \cup {CfgList(x) : x \in StepLists}
        \cup {CfgTuple(x) : x \in StepLists}

\* list(range(1, n + 1))
Range1(n) == [k \in 1..n |-> k]

\* a variant that counts the steps of 'all' from 0: list(range(num_steps))
get_time_steps_zero_based(num_steps, cfg) ==
    IF cfg.type = "str" /\ cfg.s = "first_last"
    THEN [raised |-> FALSE, ret |-> <<1, num_steps>>]
    ELSE IF cfg.type = "str" /\ cfg.s = "all"
    THEN [raised |-> FALSE, ret |-> [k \in 1..num_steps |-> k - 1]]
    ELSE IF cfg.type \in {"list", "tuple"}
    THEN [raised |-> FALSE, ret |-> cfg.l]
    ELSE [raised |-> TRUE, ret |-> <<>>]

\* the result of get_time_steps_to_process: the list returned, or ValueError
get_time_steps_to_process(num_steps, cfg) ==
    IF cfg.type = "str" /\ cfg.s = "first_last"
    THEN [raised |-> FALSE, ret |-> <<1, num_steps>>]
    ELSE IF cfg.type = "str" /\ cfg.s = "all"
    THEN [raised |-> FALSE, ret |-> Range1(num_steps)]
    ELSE IF cfg.type \in {"list", "tuple"}
    THEN [raised |-> FALSE, ret |-> cfg.l]
    ELSE [raised |-> TRUE, ret |-> <<>>]

NoCall == [op |-> "none"]

InitSteps ==
    /\ objs = {}
    /\ last = NoCall
    /\ runs = <<>>
    /\ config = <<>>
    /\ csv = <<"absent">>

CallTimeSteps ==
    /\ last = NoCall
    /\ \E n \in 1..MaxSteps, cfg \in TimeStepConfigs :
         /\ last' = [op |-> "get_time_steps_to_process", n |-> n, cfg |-> cfg,
                     out |-> get_time_steps_to_process(n, cfg)]
         /\ UNCHANGED <<objs, runs, config, csv>>

NextSteps == CallTimeSteps

SpecSteps == InitSteps /\ [][NextSteps]_vars

IsTimeStepsCall == last.op = "get_time_steps_to_process"

FacesOfA == [k \in 1..MaxFaces |-> k]
FacesOfB == <<MaxFaces + 1>>
NamedSel(id, name, faces) ==
    [Obj(id, KNamedSelection, name, 0) EXCEPT !.faces = faces, !.fresh = FALSE]

Foreign(id, name) == [Obj(id, KOther, name, 0) EXCEPT !.fresh = FALSE]

DocA == {NamedSel(1, NsA, FacesOfA)}
DocAB == {NamedSel(1, NsA, FacesOfA), NamedSel(2, NsB, FacesOfB)}

\* ------------------------------------------------------------ host lookups
\* A set of failing call sites accompanies every handler call: the site
\* <<label, k>> is the host call `label` of loop iteration k (0 outside loops).

Fails(F, label, k) == <<label, k>> \in F

\* a statement sequence: the value of `first`, computed once, handed to Rest
Then(first, Rest(_)) == CHOOSE out \in {Rest(x) : x \in {first}} : TRUE

MinId(S) == CHOOSE i \in Ids(S) : \A j \in Ids(S) : i <= j

\* results[0] of GetObjectsByName: the host's order over objects of different
\* branches is its own; `front` is the object the host lists first if it matches.
\* 0 stands for None.
FirstByName(S, name, front) ==
    LET m == ObjectsByName(S, name)
    IN  IF m = {} THEN 0
        ELSE IF front \in Ids(m) THEN front
        ELSE MinId(m)

\* get_named_selection: results[0] of whatever kind, None on nothing or on error
get_named_selection(S, name, front, F, k) ==
    IF Fails(F, "GetObjectsByName", k) THEN 0
    ELSE FirstByName(S, name, front)

\* the objects the host may list first: those sharing their name with another
Colliders(S) ==
    {o.id : o \in {x \in S : \E y \in S : y.id # x.id /\ y.name = x.name}}

Fronts(S) == {0} \cup Colliders(S)

\* ------------------------------------------------------------- contacts.py
\* One entry of the `contacts` dictionary: the named selection and the value
\* of its "type" key ("" when the key is absent, "nonstr" when the value is
\* no string).

ContactTypes == {"bonded", "Frictional", "glued", "", "nonstr"}

ContactEntries == [ns : NsNames, type : ContactTypes]

\* dictionaries of at most two entries, A before B
ContactConfigs ==
    {<<>>} \cup {<<e>> : e \in ContactEntries}
           \cup {p \in ContactEntries \X ContactEntries : p[1].ns = NsA /\ p[2].ns = NsB}

\* str.lower() on the type strings in use
Lower(t) == IF t = "Frictional" THEN "frictional" ELSE t

\* contact_config.get("type", "bonded")
TypeOf(entry) == IF entry.type = "" THEN "bonded" ELSE entry.type

ConfigureContact(S, id, ns_id, ctype) ==
    {IF o.id = id THEN [o EXCEPT !.ref = ns_id, !.ctype = ctype] ELSE o : o \in S}

\* the body shared by the two creators: add, name, scope and configure, any
\* host failure caught and logged where it happens
AddContact(S, prefix, ctype, ns_name, ns_id, F, k) ==
    IF Fails(F, "AddContactRegion", k) THEN S
    ELSE LET id == NewId(S)
             S1 == HostAdd(S, KContactRegion, 0)
         IN  IF Fails(F, "contact.Name", k) THEN S1
             ELSE LET S2 == SetName(S1, id, Fmt1(prefix, ns_name))
                  IN  IF Fails(F, "contact.configure", k) THEN S2
                      ELSE ConfigureContact(S2, id, ns_id, ctype)

create_bonded_contacts(S, ns_name, ns_id, F, k) ==
    AddContact(S, "Bonded", "Bonded", ns_name, ns_id, F, k)

create_frictional_contacts(S, ns_name, ns_id, F, k) ==
    AddContact(S, "Frictional", "Frictional", ns_name, ns_id, F, k)

\* the loop of run_from_config from entry k on; st carries the document, the
\* entries handled and whether an exception left the loop
RECURSIVE ContactLoop(_, _, _, _, _)
ContactLoop(st, contacts, front, F, k) ==
    IF k > Len(contacts) THEN st
    ELSE
      LET e == contacts[k]
          ns == get_named_selection(st.objs, e.ns, front, F, k)
          done == [st EXCEPT !.handled = st.handled \cup {k}]
      IN  IF ns = 0 THEN ContactLoop(done, contacts, front, F, k + 1)
          ELSE IF TypeOf(e) = "nonstr" THEN [st EXCEPT !.raised = TRUE]
          ELSE IF Lower(TypeOf(e)) = "bonded"
          THEN ContactLoop(
                 [done EXCEPT !.objs = create_bonded_contacts(st.objs, e.ns, ns, F, k)],
                 contacts, front, F, k + 1)
          ELSE IF Lower(TypeOf(e)) = "frictional"
          THEN ContactLoop(
                 [done EXCEPT !.objs = create_frictional_contacts(st.objs, e.ns, ns, F, k)],
                 contacts, front, F, k + 1)
          ELSE ContactLoop(done, contacts, front, F, k + 1)

\* run_from_config: nothing at all on an empty dictionary; otherwise the loop
\* and, unless an exception left it, one refresh_tree
run_from_config(S, contacts, front, F) ==
    LET st0 == [objs |-> S, handled |-> {}, raised |-> FALSE, refreshed |-> 0]
    IN  IF contacts = <<>> THEN st0
        ELSE LET st == ContactLoop(st0, contacts, front, F, 1)
             IN  IF st.raised THEN st ELSE [st EXCEPT !.refreshed = 1]

ContactSites(contacts) ==
    {"GetObjectsByName", "AddContactRegion", "contact.Name", "contact.configure"}
        \X (1..Len(contacts))

\* the sets of at most n of the sites
RECURSIVE UpTo(_, _)
UpTo(sites, n) ==
    IF n = 0 THEN {{}}
    ELSE LET less == UpTo(sites, n - 1)
         IN  less \cup {f \cup {x} : f \in less, x \in sites}

FaultSets(sites) == UpTo(sites, MaxFaults)

InitContacts ==
    /\ objs \in {DocA, DocAB, DocA \cup {Foreign(2, NsB)}}
    /\ last = NoCall
    /\ runs = <<>>
    /\ config \in ContactConfigs
    /\ csv = <<"absent">>

RunFromConfig ==
    /\ Len(runs) < MaxRuns
    /\ \E front \in Fronts(objs), F \in FaultSets(ContactSites(config)) :
           LET st == run_from_config(Age(objs), config, front, F)
           IN  /\ Cardinality(st.objs) <= MaxObjs
               /\ objs' = st.objs
               /\ last' = [op |-> "run_from_config", handled |-> st.handled,
                           raised |-> st.raised, refreshed |-> st.refreshed]
               /\ runs' = Append(runs, [clean |-> F = {}])
               /\ UNCHANGED <<config, csv>>

NextContacts == RunFromConfig

SpecContacts == InitContacts /\ [][NextContacts]_vars

ContactName(e) ==
    Fmt1(IF Lower(TypeOf(e)) = "bonded" THEN "Bonded" ELSE "Frictional", e.ns)

ContactsNamed(name) == {o \in objs : o.kind = KContactRegion /\ o.name = name}

NamedSelectionExists(name) ==
    \E o \in objs : o.kind = KNamedSelection /\ o.name = name

\* n or more runs so far (all with `config`), of bonded and frictional
\* entries only, and no host call raised in any of them
SameConfigRuns(n) ==
    /\ Len(runs) >= n
    /\ \A i \in 1..Len(runs) : runs[i].clean
    /\ \A k \in 1..Len(config) :
         Lower(TypeOf(config[k])) \in {"bonded", "frictional"}

\* C2: after two or more runs of run_from_config with the same configuration
\* there is, for every configured named selection that exists, exactly one
\* contact region named Bonded_<name> (or Frictional_<name>).
C2_OneContactPerName ==
    SameConfigRuns(2) =>
        \A k \in 1..Len(config) :
            NamedSelectionExists(config[k].ns)
                => Cardinality(ContactsNamed(ContactName(config[k]))) = 1

\* What the code does instead: every run adds one more region of that name.
ContactsGrowWithRuns ==
    SameConfigRuns(1) =>
        \A k \in 1..Len(config) :
            NamedSelectionExists(config[k].ns)
                => Cardinality(ContactsNamed(ContactName(config[k]))) = Len(runs)

IsRunFromConfig == last.op = "run_from_config"

\* C17: skip and continue in contact creation.  Whatever the entries of a
\* non-empty configuration are (named selection not found, type unknown,
\* creation refused by the host), run_from_config gets to every entry,
\* returns normally and calls refresh_tree once after the last entry.
C17_EveryEntryProcessed ==
    (IsRunFromConfig /\ config # <<>>) =>
        /\ ~last.raised
        /\ last.handled = 1..Len(config)
        /\ last.refreshed = 1

\* What holds: it is so whenever every "type" value is a string.
StringTypesAreSkipped ==
    (IsRunFromConfig /\ config # <<>>
        /\ \A k \in 1..Len(config) : TypeOf(config[k]) # "nonstr") =>
        /\ ~last.raised
        /\ last.handled = 1..Len(config)
        /\ last.refreshed = 1

\* ------------------------------------------------------ bolt_pretensions.py
\* named_selection.Location as get_faces_from_named_selection reads it: the
\* faces of the selection (iterated, or the single item appended); an object
\* without a Location raises, which the function catches and answers with [].

get_faces_from_named_selection(S, id) ==
    LET o == ById(S, id)
    IN  IF o.kind # KNamedSelection THEN [faces |-> <<>>, error |-> TRUE]
        ELSE [faces |-> o.faces, error |-> FALSE]

\* find_existing_bolt_group: results[0] if it is a bolt pretension, else None
find_existing_bolt_group(S, group_name, front, F) ==
    IF Fails(F, "group.GetObjectsByName", 0) THEN 0
    ELSE LET first == FirstByName(S, group_name, front)
         IN  IF first # 0 /\ ById(S, first).kind = KBoltPretension THEN first ELSE 0

ChildrenOf(S, id) == {o \in S : o.parent = id}

\* delete_group_children: the children are deleted in order until a Delete
\* raises; the exception is caught and logged
RECURSIVE DeleteChildren(_, _, _, _)
DeleteChildren(S, order, F, j) ==
    IF j > Len(order) THEN S
    ELSE IF Fails(F, "child.Delete", j) THEN S
    ELSE DeleteChildren(HostDelete(S, order[j]), order, F, j + 1)

delete_group_children(S, group, F) ==
    DeleteChildren(S, InOrder(Ids(ChildrenOf(S, group))), F, 1)

\* create_bolt_pretension_group: delete an existing group found by name, add
\* a new one and name it; None on any exception
create_bolt_pretension_group(S, group_name, front, F) ==
    LET existing == find_existing_bolt_group(S, group_name, front, F)
        S1 == IF existing = 0 THEN S ELSE delete_group_children(S, existing, F)
        stuck == existing # 0 /\ Fails(F, "group.Delete", 0)
        S2 == IF existing = 0 THEN S ELSE HostDelete(S1, existing)
        id == NewId(S2)
        S3 == HostAdd(S2, KBoltPretension, 0)
    IN  IF stuck THEN [objs |-> S1, ret |-> 0, error |-> TRUE]
        ELSE IF Fails(F, "connections.AddBoltPretension", 0)
        THEN [objs |-> S2, ret |-> 0, error |-> TRUE]
        ELSE IF Fails(F, "group.Name", 0)
        THEN [objs |-> S3, ret |-> 0, error |-> TRUE]
        ELSE [objs |-> SetName(S3, id, group_name), ret |-> id,
              error |-> \E j \in 1..MaxFaces : Fails(F, "child.Delete", j)]

SetBolt(S, id, field, value) ==
    {IF o.id = id THEN [o EXCEPT ![field] = value] ELSE o : o \in S}

\* the try body of one loop iteration: the bolt is added under the group and
\* its properties are set one by one; an exception ends the iteration and
\* leaves the bolt as far as it got
OneBolt(S, group, ns_name, idx, face, force, F) ==
    IF Fails(F, "bolt_group.AddBoltPretension", idx) THEN S
    ELSE LET id == NewId(S)
             S1 == HostAdd(S, KBoltPretension, group)
             S2 == SetName(S1, id, Fmt2("Bolt", ns_name, idx))
             S3 == SetBolt(S2, id, "face", face)
             S4 == SetBolt(S3, id, "load", force)
             S5 == SetBolt(S4, id, "defby", "Lock")
         IN  IF Fails(F, "bolt.Name", idx) THEN S1
             ELSE IF Fails(F, "bolt.Location", idx) THEN S2
             ELSE IF Fails(F, "Analyses[0]", idx) THEN S3
             ELSE IF Fails(F, "bolt.Preload", idx) THEN S3
             ELSE IF Fails(F, "bolt.DefineBy", idx) THEN S4
             ELSE S5

\* a loop that ends at the first face whose bolt the host refuses
RECURSIVE bolt_loop_stops_at_failure(_, _, _, _, _, _, _)
bolt_loop_stops_at_failure(S, group, ns_name, faces, force, F, idx) ==
    IF idx > Len(faces) THEN S
    ELSE IF \E f \in F : f[2] = idx
    THEN OneBolt(S, group, ns_name, idx, faces[idx], force, F)
    ELSE bolt_loop_stops_at_failure(
             OneBolt(S, group, ns_name, idx, faces[idx], force, F),
             group, ns_name, faces, force, F, idx + 1)

\* for idx, face in enumerate(faces, start=1)
RECURSIVE BoltLoop(_, _, _, _, _, _, _)
BoltLoop(S, group, ns_name, faces, force, F, idx) ==
    IF idx > Len(faces) THEN S
    ELSE BoltLoop(OneBolt(S, group, ns_name, idx, faces[idx], force, F),
                  group, ns_name, faces, force, F, idx + 1)

\* create_bolt_pretensions: nothing without the named selection or without
\* faces or without the group; otherwise one bolt per face under the group
create_bolt_pretensions(S, ns_name, force, front, F) ==
    LET ns == get_named_selection(S, ns_name, front, F, 0)
        got == get_faces_from_named_selection(S, ns)
        grp == create_bolt_pretension_group(S, Fmt1("BoltGroup", ns_name), front, F)
    IN  IF ns = 0 THEN [objs |-> S, group |-> 0, faces |-> <<>>]
        ELSE IF got.faces = <<>> THEN [objs |-> S, group |-> 0, faces |-> <<>>]
        ELSE IF grp.ret = 0 THEN [objs |-> grp.objs, group |-> 0, faces |-> got.faces]
        ELSE [objs |-> BoltLoop(grp.objs, grp.ret, ns_name, got.faces, force, F, 1),
              group |-> grp.ret, faces |-> got.faces]

GroupSites ==
    {<<"group.GetObjectsByName", 0>>, <<"group.Delete", 0>>,
     <<"connections.AddBoltPretension", 0>>, <<"group.Name", 0>>}
        \cup ({"child.Delete"} \X (1..MaxFaces))

BoltSites ==
    GroupSites \cup {<<"GetObjectsByName", 0>>}
        \cup ({"bolt_group.AddBoltPretension", "bolt.Name", "bolt.Location",
               "Analyses[0]", "bolt.Preload", "bolt.DefineBy"} \X (1..MaxFaces))

\* BOLT_PRETENSION_CONFIGS: the pretension forces in newtons
Preloads == {15000, 35000}

\* the dictionary as the repository has it: two named selections, 15 kN and
\* 35 kN (M8_Bolts and M12_Bolts, here A and B)
BOLT_PRETENSION_CONFIGS ==
    <<[ns |-> NsA, pretension |-> 15000], [ns |-> NsB, pretension |-> 35000]>>

\* BOLT_PRETENSION_CONFIGS as the user edits it: per named selection the
\* value of "pretension", 0 standing for a missing one (None)
BoltConfigEntries == [ns : NsNames, pretension : {0} \cup Preloads]

BoltConfigs ==
    {<<>>} \cup {<<e>> : e \in BoltConfigEntries}
           \cup {p \in BoltConfigEntries \X BoltConfigEntries :
                    p[1].ns = NsA /\ p[2].ns = NsB}

\* the host calls of main: those of create_bolt_pretensions for the n-th
\* configured named selection, and the final Tree.Refresh
BoltMainSites(cfgs) ==
    {<<s[1], <<n, s[2]>>>> : s \in BoltSites, n \in 1..Len(cfgs)}
        \cup {<<"Tree.Refresh", <<0, 0>>>>}

\* the failing sites of the n-th call of create_bolt_pretensions
LocalFaults(F, n) == {<<s[1], s[2][2]>> : s \in {x \in F : x[2][1] = n}}

\* for ns_name, config in BOLT_PRETENSION_CONFIGS.items(), from entry n on
RECURSIVE BoltConfigLoop(_, _, _, _, _)
BoltConfigLoop(st, cfgs, front, F, n) ==
    IF n > Len(cfgs) THEN st
    ELSE IF cfgs[n].pretension = 0 THEN BoltConfigLoop(st, cfgs, front, F, n + 1)
    ELSE Then(create_bolt_pretensions(st.objs, cfgs[n].ns, cfgs[n].pretension,
                                      front, LocalFaults(F, n)),
              LAMBDA r : BoltConfigLoop(
                  [objs |-> r.objs,
                   calls |-> Append(st.calls, [n |-> n, group |-> r.group,
                                               faces |-> r.faces])],
                  cfgs, front, F, n + 1))

\* main of bolt_pretensions.py: nothing on an empty dictionary; otherwise
\* the loop and one Tree.Refresh(), which nothing guards
bolt_pretensions_main(S, cfgs, front, F) ==
    IF cfgs = <<>>
    THEN [objs |-> S, calls |-> <<>>, refreshed |-> 0, raised |-> FALSE]
    ELSE Then(BoltConfigLoop([objs |-> S, calls |-> <<>>], cfgs, front, F, 1),
              LAMBDA st : [objs |-> st.objs, calls |-> st.calls, refreshed |-> 1,
                           raised |-> Fails(F, "Tree.Refresh", <<0, 0>>)])

InitBolts ==
    /\ objs \in {DocAB, DocAB \cup {Foreign(3, Fmt1("BoltGroup", NsB))}}
    /\ last = NoCall
    /\ runs = <<>>
    /\ config = <<>>
    /\ csv = <<"absent">>

CreateBoltPretensions ==
    /\ Len(runs) < MaxRuns
    /\ \E ns \in NsNames, force \in Preloads, front \in Fronts(objs),
          F \in FaultSets(BoltSites) :
         LET r == create_bolt_pretensions(Age(objs), ns, force, front, F)
         IN  /\ Cardinality(r.objs) <= MaxBoltObjs
             /\ objs' = r.objs
             /\ last' = [op |-> "create_bolt_pretensions", name |-> ns,
                         force |-> force, group |-> r.group, faces |-> r.faces,
                         clean |-> F = {}]
             /\ runs' = Append(runs, [clean |-> F = {}])
             /\ UNCHANGED <<config, csv>>

\* the documents main may find: the user's, and those a run of main left
BoltMainDocs ==
    LET new == {DocAB, DocAB \cup {Foreign(3, Fmt1("BoltGroup", NsB))},
                DocA \cup {Foreign(2, NsB)}}
    IN  new \cup {bolt_pretensions_main(d, BOLT_PRETENSION_CONFIGS, 0, {}).objs :
                     d \in new}

InitBoltsMain ==
    /\ objs \in BoltMainDocs
    /\ last = NoCall
    /\ runs = <<>>
    /\ config = <<>>
    /\ csv = <<"absent">>

BoltPretensionsMain ==
    /\ last = NoCall
    /\ \E cfgs \in BoltConfigs, front \in Fronts(objs) :
       \E F \in FaultSets(BoltMainSites(cfgs)) :
       \E r \in {bolt_pretensions_main(Age(objs), cfgs, front, F)} :
             /\ objs' = r.objs
             /\ last' = [op |-> "bolt_pretensions.main", cfgs |-> cfgs,
                         calls |-> r.calls, refreshed |-> r.refreshed,
                         raised |-> r.raised, faults |-> F]
             /\ runs' = Append(runs, [clean |-> F = {}])
             /\ UNCHANGED <<config, csv>>

NextBoltsMain == BoltPretensionsMain

SpecBoltsMain == InitBoltsMain /\ [][NextBoltsMain]_vars

NextBolts == CreateBoltPretensions

SpecBolts == InitBolts /\ [][NextBolts]_vars

BoltGroupsNamed(name) ==
    {o \in objs : o.kind = KBoltPretension /\ o.parent = 0 /\ o.name = name}

\* no host call raised in any run so far
AllClean == \A i \in 1..Len(runs) : runs[i].clean

\* create_bolt_pretensions got a group from create_bolt_pretension_group
GroupReturned == last.op = "create_bolt_pretensions" /\ last.group # 0

\* C3: whenever create_bolt_pretension_group(group_name) returns a group,
\* exactly one bolt pretension group named group_name exists and none of its
\* children stems from an earlier run, whatever else carries the name.
\* (Stated for the runs in which no host call raised.)
C3_OneFreshGroup ==
    (GroupReturned /\ AllClean) =>
        /\ Cardinality(BoltGroupsNamed(Fmt1("BoltGroup", last.name))) = 1
        /\ \A g \in BoltGroupsNamed(Fmt1("BoltGroup", last.name)) :
               \A c \in ChildrenOf(objs, g.id) : c.fresh

\* What holds whatever the document: the group returned is new, carries the
\* name and all its children are new.
ReturnedGroupIsNew ==
    GroupReturned =>
        /\ \E g \in BoltGroupsNamed(Fmt1("BoltGroup", last.name)) :
               g.id = last.group /\ g.fresh
        /\ \A c \in ChildrenOf(objs, last.group) : c.fresh

\* the face the named selection `name` holds at position i
FacesOfNs(name) ==
    (CHOOSE o \in objs : o.kind = KNamedSelection /\ o.name = name).faces

IsBoltFor(c, name, i, force) ==
    /\ c.name = Fmt2("Bolt", name, i)
    /\ c.face = FacesOfNs(name)[i]
    /\ c.load = force
    /\ c.defby = "Lock"

\* the group g holds exactly one bolt per face of the named selection
OneBoltPerFace(g, name, force) ==
    /\ Cardinality(ChildrenOf(objs, g.id)) = Len(FacesOfNs(name))
    /\ \A i \in 1..Len(FacesOfNs(name)) :
         Cardinality({c \in ChildrenOf(objs, g.id) : IsBoltFor(c, name, i, force)}) = 1

\* a call of create_bolt_pretensions, no host call having failed so far, on a
\* named selection (with at least one face) that the lookup returned
CleanBoltCall ==
    /\ last.op = "create_bolt_pretensions"
    /\ AllClean
    /\ NamedSelectionExists(last.name)
    /\ last.faces # <<>>

\* C4: when no host call fails, create_bolt_pretensions(ns, F) on a named
\* selection with n >= 1 faces leaves the group BoltGroup_<ns> with exactly n
\* children, the i-th named Bolt_<ns>_<i>, on the i-th face, with preload F
\* and defined by Lock.
C4_OneBoltPerFace ==
    CleanBoltCall =>
        /\ BoltGroupsNamed(Fmt1("BoltGroup", last.name)) # {}
        /\ \A g \in BoltGroupsNamed(Fmt1("BoltGroup", last.name)) :
               OneBoltPerFace(g, last.name, last.force)

\* What holds whatever the document: the group the call created is as C4 says.
CreatedGroupHasOneBoltPerFace ==
    CleanBoltCall =>
        \E g \in BoltGroupsNamed(Fmt1("BoltGroup", last.name)) :
            g.id = last.group /\ OneBoltPerFace(g, last.name, last.force)

IsBoltsMain == last.op = "bolt_pretensions.main"

\* the host refused nothing in iteration idx of the face loop of call n
FaceUndisturbed(n, idx) == \A f \in last.faults : f[2] # <<n, idx>>

\* the host refused nothing before the face loop of call n
GroupUndisturbed(n) == \A f \in last.faults : f[2] # <<n, 0>>

\* the configured entries that have a pretension value, in order
RECURSIVE WithPretension(_, _)
WithPretension(cfgs, n) ==
    IF n > Len(cfgs) THEN <<>>
    ELSE IF cfgs[n].pretension = 0 THEN WithPretension(cfgs, n + 1)
    ELSE <<n>> \o WithPretension(cfgs, n + 1)

\* C16: skip and continue in bolt pretension creation.  In a call of main
\* with a non-empty configuration, create_bolt_pretensions is called once for
\* every entry that has a pretension value, in order, whatever happened to
\* the entries before it, and the tree is refreshed once at the end; a call
\* on an existing named selection whose lookups and group creation the host
\* did not refuse has its group, a call on a missing one has none; and in
\* every group created, every face whose bolt the host did not refuse
\* has its bolt Bolt_<ns>_<idx>, whatever happened to the other faces.
C16_SkipAndContinue ==
    (IsBoltsMain /\ last.cfgs # <<>>) =>
        /\ last.refreshed = 1
        /\ [k \in 1..Len(last.calls) |-> last.calls[k].n]
               = WithPretension(last.cfgs, 1)
        /\ \A k \in 1..Len(last.calls) :
             LET c == last.calls[k]
                 e == last.cfgs[c.n]
             IN  /\ (GroupUndisturbed(c.n) /\ NamedSelectionExists(e.ns))
                      => c.group # 0
                 /\ ~NamedSelectionExists(e.ns) => c.group = 0
                 /\ c.group # 0 =>
                      \A idx \in 1..Len(c.faces) :
                          FaceUndisturbed(c.n, idx) =>
                              \E b \in ChildrenOf(objs, c.group) :
                                  b.fresh /\ IsBoltFor(b, e.ns, idx, e.pretension)

\* main on A (two faces) and B: the host refuses the bolt of the first face
\* of A; the second face of A and the face of B have their bolts
C16_FaceFailureSkipped ==
    /\ IsBoltsMain
    /\ Len(last.cfgs) = 2
    /\ Len(last.calls) = 2
    /\ \E f \in last.faults : f[2] = <<1, 1>>
    /\ last.calls[1].group # 0
    /\ \E b \in ChildrenOf(objs, last.calls[1].group) :
           IsBoltFor(b, NsA, MaxFaces, last.cfgs[1].pretension)
    /\ \A b \in ChildrenOf(objs, last.calls[1].group) :
           ~IsBoltFor(b, NsA, 1, last.cfgs[1].pretension)
    /\ last.calls[2].group # 0
    /\ \E b \in ChildrenOf(objs, last.calls[2].group) :
           IsBoltFor(b, NsB, 1, last.cfgs[2].pretension)

\* the lookup of A fails and B is no named selection (the object found has
\* no faces): both are passed over and the tree is refreshed
C16_SelectionSkipped ==
    /\ IsBoltsMain
    /\ Len(last.cfgs) = 2
    /\ Len(last.calls) = 2
    /\ <<"GetObjectsByName", <<1, 0>>>> \in last.faults
    /\ ~NamedSelectionExists(NsB)
    /\ last.calls[1].group = 0
    /\ last.calls[2].group = 0
    /\ last.refreshed = 1

\* ------------------------------------------------------ geometry_helper.py
\* Every creator answers [objs, ret, raised]: the document afterwards, the
\* object returned (0 when it raised) and whether it raised.

FirstOf(m) == IF m = {} THEN 0 ELSE MinId(m)


\* find_coordinate_system: the first coordinate system of the name; None when
\* there is none and when the enumeration raises
find_coordinate_system(S, name, F, k) ==
    IF Fails(F, "cs.GetChildren", k) THEN 0
    ELSE FirstOf({o \in GetChildren(S, KCoordinateSystem) : o.name = name})

create_face_aligned_coordinate_system(S, face, name, F, k) ==
    LET existing == find_coordinate_system(S, name, F, k)
        id == NewId(S)
        S1 == HostAdd(S, KCoordinateSystem, 0)
        S2 == SetName(S1, id, name)
        S3 == SetBolt(S2, id, "face", face)
    IN  IF existing # 0 THEN [objs |-> S, ret |-> existing, raised |-> FALSE]
        ELSE IF Fails(F, "AddCoordinateSystem", k) THEN [objs |-> S, ret |-> 0, raised |-> TRUE]
        ELSE IF Fails(F, "cs.Name", k) THEN [objs |-> S1, ret |-> 0, raised |-> TRUE]
        ELSE IF Fails(F, "cs.OriginLocation", k) THEN [objs |-> S2, ret |-> 0, raised |-> TRUE]
        ELSE [objs |-> S3, ret |-> id, raised |-> FALSE]

\* ensure_construction_geometry: the folder, added when there is none
ensure_construction_geometry(S, F, k) ==
    LET have == FirstOf({o \in S : o.kind = KConstructionGeometry /\ o.parent = 0})
    IN  IF Fails(F, "Model.GetChildren", k) THEN [objs |-> S, ret |-> 0, raised |-> TRUE]
        ELSE IF have # 0 THEN [objs |-> S, ret |-> have, raised |-> FALSE]
        ELSE IF Fails(F, "AddConstructionGeometry", k)
        THEN [objs |-> S, ret |-> 0, raised |-> TRUE]
        ELSE [objs |-> HostAdd(S, KConstructionGeometry, 0), ret |-> NewId(S),
              raised |-> FALSE]

\* find_surface: the first surface of the name under the folder
find_surface(S, cg, name, F, k) ==
    IF Fails(F, "cg.GetChildren", k) THEN 0
    ELSE FirstOf({o \in S : o.kind = KSurface /\ o.parent = cg /\ o.name = name})

create_surface_from_coordinate_system(S, cs, name, F, k) ==
    LET cg == ensure_construction_geometry(S, F, k)
        existing == find_surface(cg.objs, cg.ret, name, F, k)
        id == NewId(cg.objs)
        S1 == HostAdd(cg.objs, KSurface, cg.ret)
        S2 == SetBolt(S1, id, "ref", cs)
        S3 == SetName(S2, id, name)
    IN  IF cg.raised THEN cg
        ELSE IF existing # 0 THEN [objs |-> cg.objs, ret |-> existing, raised |-> FALSE]
        ELSE IF Fails(F, "AddSurface", k) THEN [objs |-> cg.objs, ret |-> 0, raised |-> TRUE]
        ELSE IF Fails(F, "surface.CoordinateSystem", k)
        THEN [objs |-> S1, ret |-> 0, raised |-> TRUE]
        ELSE IF Fails(F, "surface.Name", k) THEN [objs |-> S2, ret |-> 0, raised |-> TRUE]
        ELSE [objs |-> S3, ret |-> id, raised |-> FALSE]

\* get_body_from_face: the body of the face (each face belongs to the body of
\* the same number), or ValueError
get_body_from_face(face, F, k) ==
    IF Fails(F, "GeoEntityById", k) THEN [ret |-> 0, raised |-> TRUE]
    ELSE [ret |-> face, raised |-> FALSE]

\* --------------------------------------------------------- probe_helper.py

\* the host calls of the two probe kinds
ForceCalls == [find |-> "GetChildren(ForceReaction)", add |-> "AddForceReaction",
               configure |-> "force.configure", name |-> "force.Name",
               children |-> "solution.Children(Force)", delete |-> "force.Delete",
               findgroup |-> "find_group(force)", group |-> "Tree.Group(force)",
               groupname |-> "force_group.Name"]

MomentCalls == [find |-> "GetChildren(MomentReaction)", add |-> "AddMomentReaction",
                configure |-> "moment.configure", name |-> "moment.Name",
                children |-> "solution.Children(Moment)", delete |-> "moment.Delete",
                findgroup |-> "find_group(moment)", group |-> "Tree.Group(moment)",
                groupname |-> "moment_group.Name"]

\* find_probe: solution.GetChildren(probe_type, True), groups included
find_probe(S, name, kind, site, F, k) ==
    IF Fails(F, site, k) THEN 0
    ELSE FirstOf({o \in GetChildren(S, kind) : o.name = name})

ConfigureProbe(S, id, surface, cs, body) ==
    {IF o.id = id THEN [o EXCEPT !.surf = surface, !.ref = cs, !.body = body] ELSE o
        : o \in S}

\* the body shared by the two probe creators; the name is set last
AddProbe(S, kind, calls, surface, cs, body, name, F, k) ==
    LET existing == find_probe(S, name, kind, calls.find, F, k)
        id == NewId(S)
        S1 == HostAdd(S, kind, 0)
        S2 == ConfigureProbe(S1, id, surface, cs, body)
        S3 == SetName(S2, id, name)
    IN  IF existing # 0 THEN [objs |-> S, ret |-> existing, raised |-> FALSE]
        ELSE IF Fails(F, calls.add, k) THEN [objs |-> S, ret |-> 0, raised |-> TRUE]
        ELSE IF Fails(F, calls.configure, k) THEN [objs |-> S1, ret |-> 0, raised |-> TRUE]
        ELSE IF Fails(F, calls.name, k) THEN [objs |-> S2, ret |-> 0, raised |-> TRUE]
        ELSE [objs |-> S3, ret |-> id, raised |-> FALSE]

create_force_reaction_probe(S, surface, cs, body, name, F, k) ==
    AddProbe(S, KForceReaction, ForceCalls, surface, cs, body, name, F, k)

create_moment_reaction_probe(S, surface, cs, body, name, F, k) ==
    AddProbe(S, KMomentReaction, MomentCalls, surface, cs, body, name, F, k)

\* solution.Children: the probes and groups directly under the solution
SolutionKinds == {KForceReaction, KMomentReaction, KGroup}

SolutionChildren(S) == {o \in S : o.kind \in SolutionKinds /\ o.parent = 0}

\* find_group: the first direct child of the solution with the name
find_group(S, group_name, site, F, k) ==
    IF Fails(F, site, k) THEN 0
    ELSE FirstOf({o \in SolutionChildren(S) : o.name = group_name})

\* Tree.Group(probes): a new folder under the solution that takes the probes
TreeGroup(S, probes) ==
    LET id == NewId(S)
    IN  {IF o.id \in probes THEN [o EXCEPT !.parent = id] ELSE o : o \in S}
            \cup {Obj(id, KGroup, DefaultName(KGroup), 0)}

create_probe_group(S, probes, group_name, calls, F, k) ==
    IF Fails(F, calls.group, k) THEN [objs |-> S, ret |-> 0, raised |-> TRUE]
    ELSE IF Fails(F, calls.groupname, k)
    THEN [objs |-> TreeGroup(S, probes), ret |-> 0, raised |-> TRUE]
    ELSE [objs |-> SetName(TreeGroup(S, probes), NewId(S), group_name),
          ret |-> NewId(S), raised |-> FALSE]

SeqToSet(q) == {q[j] : j \in 1..Len(q)}

\* manage_probe_groups: both groups are looked up first, then each missing
\* one is created from its probes
manage_probe_groups(S, force_probes, moment_probes, base_name, F, k) ==
    LET fname == <<"Force", "_", "Probes", "_">> \o base_name
        mname == <<"Moment", "_", "Probes", "_">> \o base_name
        fhave == find_group(S, fname, ForceCalls.findgroup, F, k)
        mhave == find_group(S, mname, MomentCalls.findgroup, F, k)
        fg == IF fhave # 0 THEN [objs |-> S, ret |-> fhave, raised |-> FALSE]
              ELSE create_probe_group(S, SeqToSet(force_probes), fname,
                                      ForceCalls, F, k)
        mg == IF mhave # 0 THEN [objs |-> fg.objs, ret |-> mhave, raised |-> FALSE]
              ELSE create_probe_group(fg.objs, SeqToSet(moment_probes), mname,
                                      MomentCalls, F, k)
    IN  IF fg.raised THEN fg ELSE mg

\* ------------------------------------------------ bolt_force_extraction.py

\* named_selection_to_list: the entities of the selection; any exception on
\* the way (an object without Ids among them) is answered with []
named_selection_to_list(S, id, F, k) ==
    IF ById(S, id).kind # KNamedSelection THEN <<>>
    ELSE IF Fails(F, "CreateSelectionInfo", k) THEN <<>>
    ELSE ById(S, id).faces

\* One iteration of the face loop on the loop state
\* [objs, force_probes, moment_probes, raised, skipped]. Only the ValueError
\* of get_body_from_face is caught; what the creators raise leaves the loop.
ProcessFace(st, ns_name, i, face, F, n) ==
    Then(create_face_aligned_coordinate_system(st.objs, face, Fmt2("CS", ns_name, i),
                                               F, <<n, i>>), LAMBDA cs :
    IF cs.raised THEN [st EXCEPT !.objs = cs.objs, !.raised = TRUE]
    ELSE
    Then(create_surface_from_coordinate_system(cs.objs, cs.ret,
                                               Fmt2("Surface", ns_name, i),
                                               F, <<n, i>>), LAMBDA su :
    IF su.raised THEN [st EXCEPT !.objs = su.objs, !.raised = TRUE]
    ELSE
    Then(get_body_from_face(face, F, <<n, i>>), LAMBDA body :
    IF body.raised THEN [st EXCEPT !.objs = su.objs, !.skipped = @ \cup {i}]
    ELSE
    Then(create_force_reaction_probe(su.objs, su.ret, cs.ret, body.ret,
                                     Fmt2("Force", ns_name, i), F, <<n, i>>), LAMBDA fo :
    IF fo.raised THEN [st EXCEPT !.objs = fo.objs, !.raised = TRUE]
    ELSE
    Then(create_moment_reaction_probe(fo.objs, su.ret, cs.ret, body.ret,
                                      Fmt2("Moment", ns_name, i), F, <<n, i>>), LAMBDA mo :
    IF mo.raised
    THEN [st EXCEPT !.objs = mo.objs, !.raised = TRUE,
                    !.force_probes = Append(@, fo.ret)]
    ELSE [st EXCEPT !.objs = mo.objs,
                    !.force_probes = Append(@, fo.ret),
                    !.moment_probes = Append(@, mo.ret)])))))

RECURSIVE FaceLoop(_, _, _, _, _, _)
FaceLoop(st, ns_name, faces, i, F, n) ==
    IF i > Len(faces) \/ st.raised THEN st
    ELSE Then(ProcessFace(st, ns_name, i, faces[i], F, n), LAMBDA next :
              FaceLoop(next, ns_name, faces, i + 1, F, n))

\* process_named_selection answers
\* [objs, force_probes, moment_probes, raised, skipped]
process_named_selection(S, ns_name, front, F, n) ==
    LET named_sel == get_named_selection(S, ns_name, front, F, <<n, 0>>)
        faces == IF named_sel = 0 THEN <<>>
                 ELSE named_selection_to_list(S, named_sel, F, <<n, 0>>)
        st0 == [objs |-> S, force_probes |-> <<>>, moment_probes |-> <<>>,
                raised |-> FALSE, skipped |-> {}]
    IN  IF Len(faces) = 0 THEN st0
        ELSE
        Then(FaceLoop(st0, ns_name, faces, 1, F, n), LAMBDA st1 :
        IF st1.raised THEN st1
        ELSE
        Then(manage_probe_groups(st1.objs, st1.force_probes, st1.moment_probes,
                                 ns_name, F, <<n, 0>>), LAMBDA grp :
        IF grp.raised THEN [st1 EXCEPT !.objs = grp.objs, !.raised = TRUE]
        ELSE IF Fails(F, "Tree.Refresh", <<n, 0>>)
        THEN [st1 EXCEPT !.objs = grp.objs, !.raised = TRUE]
        ELSE [st1 EXCEPT !.objs = grp.objs]))

\* ----------------------------------------------------------------- cleanup
\* Each delete-by-pattern answers [objs, ret, matched, raised]: the document
\* afterwards, the number returned and the objects it collected.

\* the Delete() calls over the collected objects; a refused Delete is logged
\* and the loop goes on
RECURSIVE DeleteLoop(_, _, _, _, _, _)
DeleteLoop(S, ids, site, F, n, p) ==
    IF ids = {} THEN S
    ELSE LET id == CHOOSE x \in ids : \A y \in ids : x <= y
             rest == ids \ {id}
         IN  IF id \notin Ids(S) \/ Fails(F, site, <<n, p>>)
             THEN DeleteLoop(S, rest, site, F, n, p + 1)
             ELSE Then(HostDelete(S, id), LAMBDA next :
                       DeleteLoop(next, rest, site, F, n, p + 1))

DeleteEach(S, ids, site, F, n) == DeleteLoop(S, ids, site, F, n, 1)

\* the count is raised as each match is collected, before any Delete()
delete_count(matched) == Cardinality(matched)

delete_probes_by_pattern(S, pattern, calls, F, k) ==
    LET matched == {o.id : o \in {c \in SolutionChildren(S) : StartsWith(c.name, pattern)}}
    IN  IF Fails(F, calls.children, <<k, 0>>)
        THEN [objs |-> S, ret |-> 0, matched |-> {}, raised |-> FALSE]
        ELSE [objs |-> DeleteEach(S, matched, calls.delete, F, k),
              ret |-> delete_count(matched),
              matched |-> matched, raised |-> FALSE]

delete_surfaces_by_pattern(S, pattern, F, k) ==
    Then(ensure_construction_geometry(S, F, <<k, 0>>), LAMBDA cg :
    LET matched == {o.id : o \in {c \in cg.objs : /\ c.kind = KSurface
                                                   /\ c.parent = cg.ret
                                                   /\ StartsWith(c.name, pattern)}}
    IN  IF cg.raised \/ Fails(F, "cg.GetChildren", <<k, 0>>)
        THEN [objs |-> cg.objs, ret |-> 0, matched |-> {}, raised |-> FALSE]
        ELSE [objs |-> DeleteEach(cg.objs, matched, "surface.Delete", F, k),
              ret |-> delete_count(matched),
              matched |-> matched, raised |-> FALSE])

delete_coordinate_systems_by_pattern(S, pattern, F, k) ==
    LET matched == {o.id : o \in {c \in GetChildren(S, KCoordinateSystem) :
                                     StartsWith(c.name, pattern)}}
    IN  IF Fails(F, "cs.GetChildren", <<k, 0>>)
        THEN [objs |-> S, ret |-> 0, matched |-> {}, raised |-> FALSE]
        ELSE [objs |-> DeleteEach(S, matched, "cs.Delete", F, k),
              ret |-> delete_count(matched),
              matched |-> matched, raised |-> FALSE]

\* delete_probes_for_named_selection: force probes, then moment probes
delete_probes_for_named_selection(S, ns_name, F, k) ==
    Then(delete_probes_by_pattern(S, Pat("Force", ns_name), ForceCalls, F, k), LAMBDA fo :
    Then(delete_probes_by_pattern(fo.objs, Pat("Moment", ns_name), MomentCalls, F, k),
         LAMBDA mo :
    [objs |-> mo.objs, ret |-> fo.ret + mo.ret,
     matched |-> fo.matched \cup mo.matched, raised |-> FALSE]))

\* cleanup_named_selection: probes, surfaces, coordinate systems, refresh
cleanup_named_selection(S, ns_name, F, k) ==
    Then(delete_probes_for_named_selection(S, ns_name, F, k), LAMBDA pr :
    Then(delete_surfaces_by_pattern(pr.objs, Pat("Surface", ns_name), F, k), LAMBDA su :
    Then(delete_coordinate_systems_by_pattern(su.objs, Pat("CS", ns_name), F, k),
         LAMBDA cs :
    [objs |-> cs.objs, raised |-> Fails(F, "cleanup.Refresh", <<k, 0>>)])))

RECURSIVE cleanup_all_named_selections(_, _, _, _)
cleanup_all_named_selections(S, names, j, F) ==
    IF j > Len(names) THEN [objs |-> S, raised |-> FALSE]
    ELSE Then(cleanup_named_selection(S, names[j], F, j), LAMBDA one :
              IF one.raised THEN one
              ELSE cleanup_all_named_selections(one.objs, names, j + 1, F))

\* ---------------------------------------------- the extraction helpers run
\* The functions of bolt_force_extraction.py and of the helper modules called
\* one after the other on a document with the named selections A and B.

MaxCalls == 2

Folder(id) == [Obj(id, KConstructionGeometry, DefaultName(KConstructionGeometry), 0)
                  EXCEPT !.fresh = FALSE]

DocFolder == DocAB \cup {Folder(3)}

\* the host calls made once per face and once per named selection
FaceCalls ==
    {"cs.GetChildren", "AddCoordinateSystem", "cs.Name", "cs.OriginLocation",
     "Model.GetChildren", "AddConstructionGeometry", "cg.GetChildren", "AddSurface",
     "surface.CoordinateSystem", "surface.Name", "GeoEntityById",
     ForceCalls.find, ForceCalls.add, ForceCalls.configure, ForceCalls.name,
     MomentCalls.find, MomentCalls.add, MomentCalls.configure, MomentCalls.name}

SelectionCalls ==
    {"GetObjectsByName", "CreateSelectionInfo", "Tree.Refresh",
     ForceCalls.findgroup, ForceCalls.group, ForceCalls.groupname,
     MomentCalls.findgroup, MomentCalls.group, MomentCalls.groupname}

ProcessSites(n, m) ==
    (FaceCalls \X {<<n, i>> : i \in 1..m}) \cup (SelectionCalls \X {<<n, 0>>})

CsSites(i) ==
    {"cs.GetChildren", "AddCoordinateSystem", "cs.Name", "cs.OriginLocation"} \X {<<1, i>>}

SurfaceSites(i) ==
    {"Model.GetChildren", "AddConstructionGeometry", "cg.GetChildren", "AddSurface",
     "surface.CoordinateSystem", "surface.Name"} \X {<<1, i>>}

ProbeSites(calls, i) == {calls.find, calls.add, calls.configure, calls.name} \X {<<1, i>>}

\* the host calls of the cleanup of the n-th named selection; the p-th
\* Delete() of a loop is the site <<label, <<n, p>>>>
CleanupSites(n) ==
    ({ForceCalls.children, MomentCalls.children, "Model.GetChildren",
      "AddConstructionGeometry", "cg.GetChildren", "cs.GetChildren",
      "cleanup.Refresh"} \X {<<n, 0>>})
        \cup ({ForceCalls.delete, MomentCalls.delete, "surface.Delete", "cs.Delete"}
                  \X {<<n, p>> : p \in 1..MaxFaces})

\* host failures so far, and the sets of failing sites a further call may meet
RECURSIVE FaultsIn(_)
FaultsIn(rs) == IF rs = <<>> THEN 0 ELSE rs[1].faults + FaultsIn(Tail(rs))

Budget(sites) == UpTo(sites, MaxFaults - FaultsIn(runs))

Ran(F) == Append(runs, [clean |-> F = {}, faults |-> Cardinality(F)])

NamesOf(S, ids) == {o.name : o \in {x \in S : x.id \in ids}}

InitExtract ==
    /\ objs \in {DocAB, DocFolder}
    /\ last = NoCall
    /\ runs = <<>>
    /\ config = <<>>
    /\ csv = <<"absent">>

ProcessNamedSelection ==
    /\ Len(runs) < MaxCalls
    /\ \E ns \in NsNames, front \in Fronts(objs) :
         \E F \in Budget(ProcessSites(1, Len(FacesOfNs(ns)))) :
           \E r \in {process_named_selection(Age(objs), ns, front, F, 1)} :
               /\ objs' = r.objs
               /\ last' = [op |-> "process_named_selection", name |-> ns,
                           raised |-> r.raised, skipped |-> r.skipped,
                           force_probes |-> IF r.raised THEN {}
                                            ELSE NamesOf(r.objs, SeqToSet(r.force_probes)),
                           moment_probes |-> IF r.raised THEN {}
                                             ELSE NamesOf(r.objs, SeqToSet(r.moment_probes)),
                           faults |-> F]
               /\ runs' = Ran(F)
               /\ UNCHANGED <<config, csv>>

\* the coordinate system and the surface process_named_selection would hand
\* to the creators for face i of the named selection
CsOf(ns, i) == FirstOf({o \in objs : o.kind = KCoordinateSystem
                                       /\ o.name = Fmt2("CS", ns, i)})

SurfaceOf(ns, i) == FirstOf({o \in objs : o.kind = KSurface
                                            /\ o.name = Fmt2("Surface", ns, i)})

Created(op, ns, i, result, F) ==
    \E r \in {result} :
        /\ objs' = r.objs
        /\ last' = [op |-> op, name |-> ns, idx |-> i, ret |-> r.ret,
                    raised |-> r.raised, faults |-> F]
        /\ runs' = Ran(F)
        /\ UNCHANGED <<config, csv>>

CreateCoordinateSystem ==
    /\ Len(runs) < MaxCalls
    /\ \E ns \in NsNames : \E i \in 1..Len(FacesOfNs(ns)) : \E F \in Budget(CsSites(i)) :
         Created("create_face_aligned_coordinate_system", ns, i,
                 create_face_aligned_coordinate_system(
                     Age(objs), FacesOfNs(ns)[i], Fmt2("CS", ns, i), F, <<1, i>>), F)

CreateSurface ==
    /\ Len(runs) < MaxCalls
    /\ \E ns \in NsNames : \E i \in 1..Len(FacesOfNs(ns)) : \E F \in Budget(SurfaceSites(i)) :
         /\ CsOf(ns, i) # 0
         /\ Created("create_surface_from_coordinate_system", ns, i,
                    create_surface_from_coordinate_system(
                        Age(objs), CsOf(ns, i), Fmt2("Surface", ns, i), F, <<1, i>>), F)

CreateForceProbe ==
    /\ Len(runs) < MaxCalls
    /\ \E ns \in NsNames : \E i \in 1..Len(FacesOfNs(ns)) :
         \E F \in Budget(ProbeSites(ForceCalls, i)) :
           /\ CsOf(ns, i) # 0 /\ SurfaceOf(ns, i) # 0
           /\ Created("create_force_reaction_probe", ns, i,
                      create_force_reaction_probe(
                          Age(objs), SurfaceOf(ns, i), CsOf(ns, i), FacesOfNs(ns)[i],
                          Fmt2("Force", ns, i), F, <<1, i>>), F)

CreateMomentProbe ==
    /\ Len(runs) < MaxCalls
    /\ \E ns \in NsNames : \E i \in 1..Len(FacesOfNs(ns)) :
         \E F \in Budget(ProbeSites(MomentCalls, i)) :
           /\ CsOf(ns, i) # 0 /\ SurfaceOf(ns, i) # 0
           /\ Created("create_moment_reaction_probe", ns, i,
                      create_moment_reaction_probe(
                          Age(objs), SurfaceOf(ns, i), CsOf(ns, i), FacesOfNs(ns)[i],
                          Fmt2("Moment", ns, i), F, <<1, i>>), F)

\* a delete call: `gone` counts the collected objects that left the document
Deleted(op, ns, result, F) ==
    \E r \in {result} :
        /\ objs' = r.objs
        /\ last' = [op |-> op, name |-> ns, ret |-> r.ret, matched |-> r.matched,
                    gone |-> Cardinality(r.matched \ Ids(r.objs)), faults |-> F]
        /\ runs' = Ran(F)
        /\ UNCHANGED <<config, csv>>

DeleteCoordinateSystemsByPattern ==
    /\ Len(runs) < MaxCalls
    /\ \E ns \in NsNames : \E F \in Budget(CleanupSites(1)) :
         Deleted("delete_coordinate_systems_by_pattern", ns,
                 delete_coordinate_systems_by_pattern(Age(objs), Pat("CS", ns), F, 1), F)

DeleteSurfacesByPattern ==
    /\ Len(runs) < MaxCalls
    /\ \E ns \in NsNames : \E F \in Budget(CleanupSites(1)) :
         Deleted("delete_surfaces_by_pattern", ns,
                 delete_surfaces_by_pattern(Age(objs), Pat("Surface", ns), F, 1), F)

DeleteProbesByPattern ==
    /\ Len(runs) < MaxCalls
    /\ \E ns \in NsNames : \E F \in Budget(CleanupSites(1)) :
         Deleted("delete_probes_by_pattern", ns,
                 delete_probes_by_pattern(Age(objs), Pat("Force", ns), ForceCalls, F, 1), F)

DeleteProbesForNamedSelection ==
    /\ Len(runs) < MaxCalls
    /\ \E ns \in NsNames : \E F \in Budget(CleanupSites(1)) :
         Deleted("delete_probes_for_named_selection", ns,
                 delete_probes_for_named_selection(Age(objs), ns, F, 1), F)

NextExtract ==
    \/ ProcessNamedSelection
    \/ CreateCoordinateSystem
    \/ CreateSurface
    \/ CreateForceProbe
    \/ CreateMomentProbe
    \/ DeleteCoordinateSystemsByPattern
    \/ DeleteSurfacesByPattern
    \/ DeleteProbesByPattern
    \/ DeleteProbesForNamedSelection

SpecExtract == InitExtract /\ [][NextExtract]_vars

GeneratedKinds == {KCoordinateSystem, KSurface, KForceReaction, KMomentReaction}

\* the objects a helper has named (the host's default name is not one)
Named(kind) == {o \in objs : o.kind = kind /\ o.name # DefaultName(kind)}

\* C1: after any sequence of calls of the four create-if-absent helpers and
\* of process_named_selection, no two coordinate systems, no two surfaces,
\* no two force probes and no two moment probes carry the same name.
C1_OneObjectPerName ==
    \A kind \in GeneratedKinds : \A a, b \in Named(kind) : a.name = b.name => a.id = b.id

\* as long as no host call raised, the names stay unique
NamesUniqueWhenClean ==
    AllClean => \A kind \in GeneratedKinds :
                    \A a, b \in Named(kind) : a.name = b.name => a.id = b.id

IsProcessCall == last.op = "process_named_selection"

\* the host failures of the call all belong to single faces
FaceFailuresOnly == \A f \in last.faults : f[2][2] # 0

FailedAt(i) == \E f \in last.faults : f[2][2] = i

ProbesReturnedFor(i) ==
    /\ Fmt2("Force", last.name, i) \in last.force_probes
    /\ Fmt2("Moment", last.name, i) \in last.moment_probes

\* C5: when a face of the named selection cannot be processed (its body
\* lookup or one of its object creations fails), process_named_selection
\* skips that face only: the probes of every other face are returned.
C5_OtherFacesProcessed ==
    (IsProcessCall /\ FaceFailuresOnly) =>
        \A i \in 1..Len(FacesOfNs(last.name)) : ~FailedAt(i) => ProbesReturnedFor(i)

\* a failed body lookup does skip that face only
BodyFailureSkipsOneFace ==
    (IsProcessCall /\ \A f \in last.faults : f[1] = "GeoEntityById") =>
        /\ ~last.raised
        /\ \A i \in 1..Len(FacesOfNs(last.name)) : ~FailedAt(i) => ProbesReturnedFor(i)

ProbesOf(ns) ==
    {o \in objs : \/ o.kind = KForceReaction /\ StartsWith(o.name, Pat("Force", ns))
                  \/ o.kind = KMomentReaction /\ StartsWith(o.name, Pat("Moment", ns))}

\* C8: after delete_probes_for_named_selection(ns) no force or moment probe
\* of the named selection is left, the probes inside the groups
\* Force_Probes_<ns> and Moment_Probes_<ns> included.
\* (Stated for the runs in which no host call raised.)
C8_NoProbeLeft ==
    (last.op = "delete_probes_for_named_selection" /\ AllClean) => ProbesOf(last.name) = {}

\* the probes directly under the solution are deleted
TopLevelProbesDeleted ==
    (last.op = "delete_probes_for_named_selection" /\ AllClean) =>
        \A o \in ProbesOf(last.name) : o.parent # 0

DeleteByPatternOps ==
    {"delete_coordinate_systems_by_pattern", "delete_surfaces_by_pattern",
     "delete_probes_by_pattern"}

\* C9: the number a delete-by-pattern function returns is the number of
\* objects it deleted, also when the host refuses a Delete().
C9_CountIsDeleted == last.op \in DeleteByPatternOps => last.ret = last.gone

\* the number returned is the number of objects collected for deletion
CountIsCollected ==
    last.op \in DeleteByPatternOps => last.ret = Cardinality(last.matched)

\* ------------------------------------------------------------- load_config
\* The YAML file config/bolt_force_extraction_config.yaml: missing, empty
\* (safe_load answers None), an empty mapping, not YAML at all, or a mapping
\* with content.

OperationModes == {"run_only", "cleanup_only", "run_cleanup"}

EMBEDDED_CONFIG ==
    [named_selections |-> <<NsA, NsB>>, time_steps |-> CfgStr("first_last"),
     operation_mode |-> "run_only"]

YamlContents ==
    [named_selections : {<<NsA>>, <<NsB>>, <<NsA, NsB>>, <<NsB, NsA>>},
     time_steps : TimeStepConfigs, operation_mode : OperationModes]

Yaml(state, content) == [state |-> state, content |-> content]

YamlFiles ==
    {Yaml(st, <<>>) : st \in {"missing", "empty", "empty mapping", "invalid"}}
        \cup {Yaml("mapping", c) : c \in YamlContents}

\* load_yaml_config answers [raised, ret]: FileNotFoundError for a missing
\* file, YAMLError for an invalid one, {} for whatever parses to a false value
load_yaml_config(file) ==
    IF file.state \in {"missing", "invalid"} THEN [raised |-> TRUE, ret |-> <<>>]
    ELSE IF file.state = "mapping" THEN [raised |-> FALSE, ret |-> file.content]
    ELSE [raised |-> FALSE, ret |-> <<>>]

\* load_config: the YAML configuration if it is a true value, else the
\* embedded one; nothing is caught
load_config(file) ==
    Then(load_yaml_config(file), LAMBDA yaml_config :
         IF yaml_config.raised THEN yaml_config
         ELSE IF yaml_config.ret # <<>> THEN yaml_config
         ELSE [raised |-> FALSE, ret |-> EMBEDDED_CONFIG])

InitConfig ==
    /\ objs = {}
    /\ last = NoCall
    /\ runs = <<>>
    /\ config \in YamlFiles
    /\ csv = <<"absent">>

LoadConfig ==
    /\ last = NoCall
    /\ last' = [op |-> "load_config", out |-> load_config(config)]
    /\ UNCHANGED <<objs, runs, config, csv>>

NextConfig == LoadConfig

SpecConfig == InitConfig /\ [][NextConfig]_vars

IsLoadConfig == last.op = "load_config"

\* C12: whenever the YAML file is missing or empty, load_config returns
\* EMBEDDED_CONFIG without raising; it returns the parsed YAML only when the
\* file exists and is not empty.
C12_FallsBackToEmbedded ==
    IsLoadConfig =>
        /\ config.state \in {"missing", "empty"}
              => (~last.out.raised /\ last.out.ret = EMBEDDED_CONFIG)
        /\ (~last.out.raised /\ last.out.ret # EMBEDDED_CONFIG)
              => (config.state = "mapping" /\ last.out.ret = config.content)

\* an empty file does fall back, and a mapping is returned as parsed
EmptyFileFallsBack ==
    IsLoadConfig =>
        /\ config.state \in {"empty", "empty mapping"}
              => (~last.out.raised /\ last.out.ret = EMBEDDED_CONFIG)
        /\ config.state = "mapping"
              => (~last.out.raised /\ last.out.ret = config.content)

\* ------------------------------------------------------------------ main()

MaxMainRuns == 2

\* analysis.AnalysisSettings.NumberOfSteps of the analysis
NumberOfSteps == MaxSteps

HeaderRows ==
    << <<"Bolt Force Extraction Results - All values in project units">>,
       <<"name", "time", "Fx", "Fy", "Fz", "Mx", "My", "Mz", "x_pos", "y_pos", "z_pos">> >>

\* force_probe.Orientation.Name; a probe whose coordinate system is gone is
\* oriented by the global one
OrientationName(S, probe) ==
    LET cs == {o \in S : o.id = ById(S, probe).ref}
    IN  IF cs = {} THEN <<"Global Coordinate System">> ELSE (CHOOSE o \in cs : TRUE).name

\* the row written for a probe pair: the eleven values of extract_probe_results
DataRow(S, force, moment, step) ==
    <<OrientationName(S, force), step, "fx", "fy", "fz", "mx", "my", "mz", "x", "y", "z">>

Min(a, b) == IF a < b THEN a ELSE b

\* the rows of one time step: zip(all_force_probes, all_moment_probes)
StepRows(S, fps, mps, step) ==
    [p \in 1..Min(Len(fps), Len(mps)) |-> DataRow(S, fps[p], mps[p], step)]

\* The interpreter is Python 3: the helper modules this script imports are
\* written with f-strings.  There a file opened in a binary mode takes bytes
\* only, and csv.writer hands it str: writerow raises TypeError and the file
\* stays as open() left it.
FileMode == "wb"

\* writer.writerow(row) on the rows already in the file: [rows, raised]
writerow(mode, rows, row) ==
    IF mode \in {"wb", "ab"} THEN [rows |-> rows, raised |-> TRUE]
    ELSE [rows |-> Append(rows, row), raised |-> FALSE]

\* a sequence of writerow calls, ended by the first that raises
RECURSIVE WriteRows(_, _, _, _)
WriteRows(mode, rows, new, p) ==
    IF p > Len(new) THEN [rows |-> rows, raised |-> FALSE]
    ELSE Then(writerow(mode, rows, new[p]), LAMBDA w :
              IF w.raised THEN w ELSE WriteRows(mode, w.rows, new, p + 1))

write_csv_header(mode, rows) == WriteRows(mode, rows, HeaderRows, 1)

RECURSIVE ExportSteps(_, _, _, _, _, _, _, _)
ExportSteps(S, fps, mps, steps, j, rows, mode, F) ==
    IF j > Len(steps) THEN [csv |-> <<"written", rows>>, raised |-> FALSE]
    ELSE IF Fails(F, "EvaluateAllResults", <<0, j>>)
    THEN [csv |-> <<"written", rows>>, raised |-> TRUE]
    ELSE Then(WriteRows(mode, rows, StepRows(S, fps, mps, steps[j]), 1), LAMBDA w :
              IF w.raised THEN [csv |-> <<"written", w.rows>>, raised |-> TRUE]
              ELSE ExportSteps(S, fps, mps, steps, j + 1, w.rows, mode, F))

\* evaluate_probes_and_export answers [csv, raised]: the file afterwards;
\* open() truncates the file
evaluate_probes_and_export(S, fps, mps, old, time_steps_config, F) ==
    LET steps == get_time_steps_to_process(NumberOfSteps, time_steps_config)
    IN  IF steps.raised THEN [csv |-> old, raised |-> TRUE]
        ELSE IF Fails(F, "open", <<0, 0>>) THEN [csv |-> old, raised |-> TRUE]
        ELSE Then(write_csv_header(FileMode, <<>>), LAMBDA head :
                  IF head.raised THEN [csv |-> <<"written", head.rows>>, raised |-> TRUE]
                  ELSE ExportSteps(S, fps, mps, steps.ret, 1, head.rows, FileMode, F))

\* the loop over the named selections on [objs, force_probes, moment_probes, raised]
RECURSIVE ProcessAll(_, _, _, _, _)
ProcessAll(st, names, n, front, F) ==
    IF n > Len(names) \/ st.raised THEN st
    ELSE Then(process_named_selection(st.objs, names[n], front, F, n), LAMBDA r :
              ProcessAll([objs |-> r.objs, raised |-> r.raised,
                          force_probes |-> st.force_probes \o
                              (IF r.raised THEN <<>> ELSE r.force_probes),
                          moment_probes |-> st.moment_probes \o
                              (IF r.raised THEN <<>> ELSE r.moment_probes)],
                         names, n + 1, front, F))

\* the coordinate system names of zip(force_probes, moment_probes)
PairNames(S, fps, mps) ==
    [p \in 1..Min(Len(fps), Len(mps)) |-> OrientationName(S, fps[p])]

\* the part of main after the analysis is found, in a mode other than
\* cleanup_only
RunMode(S, cfg, mode, old, front, F) ==
    Then(ProcessAll([objs |-> S, raised |-> FALSE, force_probes |-> <<>>,
                     moment_probes |-> <<>>], cfg.named_selections, 1, front, F),
         LAMBDA st :
    IF st.raised
    THEN [objs |-> st.objs, csv |-> old, raised |-> TRUE, outcome |-> "creation",
          pairs |-> <<>>]
    ELSE IF Len(st.force_probes) = 0
    THEN [objs |-> st.objs, csv |-> old, raised |-> FALSE, outcome |-> "no probes",
          pairs |-> <<>>]
    ELSE
    Then(evaluate_probes_and_export(st.objs, st.force_probes, st.moment_probes,
                                    old, cfg.time_steps, F), LAMBDA ex :
    IF ex.raised
    THEN [objs |-> st.objs, csv |-> ex.csv, raised |-> TRUE, outcome |-> "export",
          pairs |-> PairNames(st.objs, st.force_probes, st.moment_probes)]
    ELSE IF mode = "run_cleanup"
    THEN Then(cleanup_all_named_selections(st.objs, cfg.named_selections, 1, F),
              LAMBDA after :
              [objs |-> after.objs, csv |-> ex.csv, raised |-> after.raised,
               outcome |-> "complete",
               pairs |-> PairNames(st.objs, st.force_probes, st.moment_probes)])
    ELSE [objs |-> st.objs, csv |-> ex.csv, raised |-> FALSE, outcome |-> "complete",
          pairs |-> PairNames(st.objs, st.force_probes, st.moment_probes)]))

\* the part of main after load_config has returned the configuration
Configured(S, cfg, mode, old, front, F) ==
    IF Fails(F, "Model.Analyses", <<0, 0>>)
    THEN [objs |-> S, csv |-> old, raised |-> FALSE, outcome |-> "no analysis",
          pairs |-> <<>>]
    ELSE IF mode = "cleanup_only"
    THEN Then(cleanup_all_named_selections(S, cfg.named_selections, 1, F), LAMBDA clean :
              [objs |-> clean.objs, csv |-> old, raised |-> clean.raised,
               outcome |-> "cleanup", pairs |-> <<>>])
    ELSE RunMode(S, cfg, mode, old, front, F)

\* main answers [objs, csv, raised, outcome, pairs]; pairs names the probe
\* pairs handed to evaluate_probes_and_export.  What load_config raises
\* leaves main at its first statement.
main(S, file, mode, old, front, F) ==
    Then(load_config(file), LAMBDA cfg :
         IF cfg.raised
         THEN [objs |-> S, csv |-> old, raised |-> TRUE, outcome |-> "config",
               pairs |-> <<>>]
         ELSE Configured(S, cfg.ret, mode, old, front, F))

MainConfigs ==
    [named_selections : {<<NsA>>, <<NsB>>, <<NsB, NsA>>},
     time_steps : {CfgStr("first_last"), CfgStr("all"), CfgList(<<2>>), CfgInt}]

RECURSIVE SelectionSites(_, _)
SelectionSites(names, n) ==
    IF n > Len(names) THEN {}
    ELSE ProcessSites(n, Len(FacesOfNs(names[n]))) \cup CleanupSites(n)
             \cup SelectionSites(names, n + 1)

MainSites(cfg) ==
    {<<"Model.Analyses", <<0, 0>>>>, <<"open", <<0, 0>>>>}
        \cup ({"EvaluateAllResults"} \X {<<0, j>> : j \in 1..NumberOfSteps})
        \cup SelectionSites(cfg.named_selections, 1)

InitMain ==
    /\ objs \in {DocAB, DocFolder}
    /\ last = NoCall
    /\ runs = <<>>
    /\ config \in MainConfigs
    /\ csv = <<"absent">>

Main ==
    /\ Len(runs) < MaxMainRuns
    /\ \E mode \in OperationModes, front \in Fronts(objs) :
         \E file \in {Yaml("missing", <<>>), Yaml("mapping", config)} :
         \E F \in IF file.state = "missing" THEN {{}} ELSE Budget(MainSites(config)) :
           \E r \in {main(Age(objs), file, mode, csv, front, F)} :
               /\ objs' = r.objs
               /\ csv' = r.csv
               /\ last' = [op |-> "main", mode |-> mode, raised |-> r.raised,
                           outcome |-> r.outcome, csv |-> csv, faults |-> F,
                           pairs |-> r.pairs]
               /\ runs' = Ran(F)
               /\ UNCHANGED config

NextMain == Main

SpecMain == InitMain /\ [][NextMain]_vars

IsMain(mode) == last.op = "main" /\ last.mode = mode

Fresh == {o \in objs : o.fresh}

\* C6: main in mode cleanup_only creates no host object, the construction
\* geometry folder included, and leaves the CSV file as it was.
C6_CleanupOnlyCreatesNothing ==
    IsMain("cleanup_only") => (Fresh = {} /\ csv = last.csv)

\* cleanup_only adds nothing but the folder, and never touches the file
CleanupOnlyAddsFolderOnly ==
    IsMain("cleanup_only") =>
        /\ \A o \in Fresh : o.kind = KConstructionGeometry
        /\ csv = last.csv

GeneratedFor(ns) ==
    {o \in objs : \/ o.kind = KCoordinateSystem /\ StartsWith(o.name, Pat("CS", ns))
                  \/ o.kind = KSurface /\ StartsWith(o.name, Pat("Surface", ns))}
        \cup ProbesOf(ns)

\* the host failures of the call, if any, lie in the creation and export steps
CleanupUndisturbed ==
    \A f \in last.faults :
        \A n \in 1..Len(config.named_selections) : f \notin CleanupSites(n)

\* C7: main in mode run_cleanup leaves no generated coordinate system,
\* surface, force probe or moment probe of the configured named selections,
\* whatever the outcome of the creation and export steps.
C7_RunCleanupLeavesNothing ==
    (IsMain("run_cleanup") /\ CleanupUndisturbed
        /\ last.outcome \notin {"config", "no analysis"}) =>
        \A j \in 1..Len(config.named_selections) :
            GeneratedFor(config.named_selections[j]) = {}

\* every run that gets as far as the export ends there, before any cleanup
ExportEndsTheRun ==
    (last.op = "main" /\ last.mode # "cleanup_only" /\ Len(last.pairs) > 0)
            => (last.raised /\ last.outcome = "export")

ExportCalled == last.op = "main" /\ last.outcome \in {"export", "complete"}

StepsOf(cfg) == get_time_steps_to_process(NumberOfSteps, cfg.time_steps)

\* rows is the table of the probe pairs over the steps: two header rows, then
\* for every step in order one row per pair in order, with the pair's name
\* and the step
IsTable(rows, steps, pairs) ==
    /\ Len(rows) = 2 + Len(steps) * Len(pairs)
    /\ SubSeq(rows, 1, 2) = HeaderRows
    /\ \A j \in 1..Len(steps) : \A p \in 1..Len(pairs) :
         LET row == rows[2 + (j - 1) * Len(pairs) + p]
         IN  Len(row) = 11 /\ row[1] = pairs[p] /\ row[2] = steps[j]

\* C11: evaluate_probes_and_export writes the two header rows followed by
\* |steps| x |pairs| data rows, ordered by step first and by probe pair
\* second, each row with its step in the time column.
\* (Stated for valid time-step configurations and no failing host call.)
C11_CsvTable ==
    (ExportCalled /\ last.faults = {} /\ ~StepsOf(config).raised) =>
        /\ csv[1] = "written"
        /\ IsTable(csv[2], StepsOf(config).ret, last.pairs)


\* ---------------------------------------------------- get_named_selection
\* The function exists twice with the same body: in named_selection_helper
\* (used by contacts.py and bolt_force_extraction.py) and in
\* bolt_pretensions.py.  It is called on documents in which objects of
\* another kind may carry the name of a named selection.

LookupModules == {"named_selection_helper", "bolt_pretensions"}

LookupObjects ==
    {NamedSel(1, NsA, FacesOfA), NamedSel(2, NsB, FacesOfB),
     Foreign(3, NsA), Foreign(4, NsB)}

LookupSite == <<"GetObjectsByName", 0>>

InitLookup ==
    /\ objs \in SUBSET LookupObjects
    /\ last = NoCall
    /\ runs = <<>>
    /\ config = <<>>
    /\ csv = <<"absent">>

GetNamedSelection ==
    \E module \in LookupModules, name \in NsNames, front \in Fronts(objs),
       F \in {{}, {LookupSite}} :
        /\ last' = [op |-> "get_named_selection", module |-> module,
                    name |-> name, front |-> front, failed |-> F # {},
                    ret |-> get_named_selection(objs, name, front, F, 0)]
        /\ UNCHANGED <<objs, runs, config, csv>>

NextLookup == GetNamedSelection

SpecLookup == InitLookup /\ [][NextLookup]_vars

IsLookup == last.op = "get_named_selection"

\* C15: get_named_selection(name) returns None when no named selection
\* called name exists or when the host lookup fails, and otherwise returns a
\* named selection object called name, also where objects of other kinds
\* carry the same name.  (It never raises: the model's function has no
\* raising outcome, the whole body being inside try/except Exception.)
C15_ReturnsNamedSelection ==
    IsLookup =>
        IF last.failed \/ ~NamedSelectionExists(last.name)
        THEN last.ret = 0
        ELSE /\ last.ret \in Ids(objs)
             /\ ById(objs, last.ret).kind = KNamedSelection
             /\ ById(objs, last.ret).name = last.name

\* What the code does: None on a failed lookup or when nothing at all
\* carries the name, otherwise some object of that name, of whatever kind.
LookupReturnsSomeObjectOfName ==
    IsLookup =>
        IF last.failed \/ ObjectsByName(objs, last.name) = {}
        THEN last.ret = 0
        ELSE /\ last.ret \in Ids(objs)
             /\ ById(objs, last.ret).name = last.name


\* ------------------------------------------- the frame of delete-by-pattern
\* The two delete functions of geometry_helper, the kind each one deletes
\* and the prefix ("CS" or "Surface") its pattern <prefix>_<ns>_ starts with.

GeometryDeletes ==
    {[op |-> "delete_coordinate_systems_by_pattern", kind |-> KCoordinateSystem,
      prefix |-> "CS", delete |-> "cs.Delete"],
     [op |-> "delete_surfaces_by_pattern", kind |-> KSurface,
      prefix |-> "Surface", delete |-> "surface.Delete"]}

\* the objects of S that d called for the named selection ns is to delete
PrefixMatches(S, d, ns) ==
    {o \in S : o.kind = d.kind /\ StartsWith(o.name, Pat(d.prefix, ns))}

\* C18: delete_coordinate_systems_by_pattern(p) and
\* delete_surfaces_by_pattern(p) delete exactly the prefix matches: when no
\* host delete fails, the document after the call is the document before it
\* without the coordinate systems (resp. surfaces) whose name starts with p.
C18_DeletesExactlyPrefixMatches ==
    [][\A d \in GeometryDeletes :
          (last'.op = d.op /\ \A f \in last'.faults : f[1] # d.delete)
              => Age(objs') = Age(objs) \ PrefixMatches(Age(objs), d, last'.name)]_vars

\* What holds: when no host call fails at all, the prefix matches are what
\* leaves the document, and nothing is added but a construction geometry
\* folder.
DeletesMatchesAndAddsFolderOnly ==
    [][\A d \in GeometryDeletes :
          (last'.op = d.op /\ last'.faults = {})
              => /\ Age(objs) \ Age(objs') = PrefixMatches(Age(objs), d, last'.name)
                 /\ \A o \in Age(objs') \ Age(objs) : o.kind = KConstructionGeometry]_vars


\* ------------------------------------------------- what a skipped face leaves
\* the objects of the given kind and name that the last call created
FreshNamed(kind, name) == {o \in objs : o.fresh /\ o.kind = kind /\ o.name = name}

\* C19: a skipped face leaves nothing behind: when process_named_selection
\* skips face i because get_body_from_face raises ValueError, afterwards no
\* coordinate system CS_<ns>_<i>, no surface Surface_<ns>_<i> and no probe
\* of that face exists that did not exist before the call.
C19_SkippedFaceLeavesNothing ==
    IsProcessCall =>
        \A i \in last.skipped :
            /\ FreshNamed(KCoordinateSystem, Fmt2("CS", last.name, i)) = {}
            /\ FreshNamed(KSurface, Fmt2("Surface", last.name, i)) = {}
            /\ FreshNamed(KForceReaction, Fmt2("Force", last.name, i)) = {}
            /\ FreshNamed(KMomentReaction, Fmt2("Moment", last.name, i)) = {}

\* What holds: a skipped face has its coordinate system and its surface, made
\* before the body lookup, and gets no probe.
SkippedFaceKeepsGeometry ==
    IsProcessCall =>
        \A i \in last.skipped :
            /\ \E o \in objs : /\ o.kind = KCoordinateSystem
                              /\ o.name = Fmt2("CS", last.name, i)
            /\ \E o \in objs : /\ o.kind = KSurface
                              /\ o.name = Fmt2("Surface", last.name, i)
            /\ FreshNamed(KForceReaction, Fmt2("Force", last.name, i)) = {}
            /\ FreshNamed(KMomentReaction, Fmt2("Moment", last.name, i)) = {}


\* ------------------------------------------------------------------ main.py
\* The entry point.  A run of main.py is one action; what it ran is kept as
\* the sequence of events "<step>.start", "<step>.end" (the step returned)
\* and "<step>.raised" (an exception left it).

MaxChoices == 2

\* config/contact_config.yaml as contacts.main finds it
ContactFiles ==
    {Yaml(st, <<>>) : st \in {"missing", "empty", "invalid"}}
        \cup {Yaml("mapping", c) :
                c \in {<<[ns |-> NsA, type |-> "bonded"]>>,
                       <<[ns |-> NsA, type |-> "Frictional"], [ns |-> NsB, type |-> "glued"]>>,
                       <<[ns |-> NsA, type |-> "nonstr"], [ns |-> NsB, type |-> "bonded"]>>}}

\* main of contacts.py: a missing file (or a missing yaml module) gives the
\* embedded configuration, which has no contacts; a YAMLError is not caught;
\* run_from_config is not guarded
contacts_main(S, file, front, F) ==
    Then(load_yaml_config(file), LAMBDA yaml_config :
    IF file.state = "missing"
    THEN [objs |-> run_from_config(S, <<>>, front, F).objs, raised |-> FALSE]
    ELSE IF yaml_config.raised THEN [objs |-> S, raised |-> TRUE]
    ELSE Then(run_from_config(S, yaml_config.ret, front, F), LAMBDA r :
              [objs |-> r.objs, raised |-> r.raised]))

\* what a step leaves in the event log
Events(st, step, r) ==
    [objs |-> r.objs, raised |-> r.raised,
     log |-> st.log \o <<step \o ".start",
                         step \o (IF r.raised THEN ".raised" ELSE ".end")>>]

\* the host failures of a run: those of the contact calls and those of the
\* bolt calls
HostFaults ==
    {[contacts |-> {}, bolts |-> {}],
     [contacts |-> {<<"AddContactRegion", 1>>}, bolts |-> {}],
     [contacts |-> {}, bolts |-> {<<"bolt.Location", <<1, 1>>>>}],
     [contacts |-> {}, bolts |-> {<<"Tree.Refresh", <<0, 0>>>>}]}

\* env: the contact file, the host's listing order and the host failures
run_contact_automation(st, env) ==
    Events(st, "contacts",
           contacts_main(st.objs, env.file, env.front, env.faults.contacts))

run_bolt_pretension_automation(st, env) ==
    Events(st, "bolts",
           bolt_pretensions_main(st.objs, BOLT_PRETENSION_CONFIGS, env.front,
                                 env.faults.bolts))

\* run_all: step 1, then step 2; nothing is caught
run_all(st, env) ==
    Then(run_contact_automation(st, env), LAMBDA one :
    IF one.raised THEN one ELSE run_bolt_pretension_automation(one, env))

\* interactive_mode from the p-th line the user enters; the user leaves with
\* "4" or with Ctrl-C after the last line; an exception of a step is printed
\* and the menu comes again
RECURSIVE interactive_mode(_, _, _, _)
interactive_mode(st, env, choices, p) ==
    IF p > Len(choices) \/ choices[p] = "4" THEN [st EXCEPT !.raised = FALSE]
    ELSE IF choices[p] = "1"
    THEN Then(run_contact_automation(st, env), LAMBDA r :
              interactive_mode(r, env, choices, p + 1))
    ELSE IF choices[p] = "2"
    THEN Then(run_bolt_pretension_automation(st, env), LAMBDA r :
              interactive_mode(r, env, choices, p + 1))
    ELSE IF choices[p] = "3"
    THEN Then(run_all(st, env), LAMBDA r :
              interactive_mode(r, env, choices, p + 1))
    ELSE interactive_mode(st, env, choices, p + 1)

\* the flags argparse knows, and the command lines tried
KnownFlags == {"--contacts", "--bolts", "--all", "--interactive", "-i"}

Argvs ==
    {<<>>} \cup {<<f>> : f \in KnownFlags \cup {"--extract-forces"}}
           \cup {<<"--all", "--contacts">>, <<"--bolts", "-i">>,
                 <<"--all", "--extract-forces">>}

\* parser.parse_args(): an unrecognized argument ends the process (exit
\* status 2); otherwise the flags that were given
parse_args(argv) ==
    LET given == {argv[k] : k \in 1..Len(argv)}
    IN  [exit |-> IF given \subseteq KnownFlags THEN 0 ELSE 2,
         interactive |-> given \cap {"--interactive", "-i"} # {},
         contacts |-> "--contacts" \in given,
         bolts |-> "--bolts" \in given,
         all |-> "--all" \in given]

\* whether the run gets to the menu
Interactive(argv, in_ansys) ==
    IF Len(argv) > 0 THEN parse_args(argv).exit = 0 /\ parse_args(argv).interactive
    ELSE ~in_ansys

\* main of main.py answers [objs, log, raised, exit]
main_py(S, argv, in_ansys, choices, env) ==
    LET st == [objs |-> S, log |-> <<>>, raised |-> FALSE]
        Exit(r, code) == [objs |-> r.objs, log |-> r.log, raised |-> r.raised,
                          exit |-> IF r.raised THEN 1 ELSE code]
    IN  IF Len(argv) > 0
        THEN Then(parse_args(argv), LAMBDA args :
             IF args.exit # 0 THEN Exit(st, args.exit)
             ELSE IF args.interactive THEN Exit(interactive_mode(st, env, choices, 1), 0)
             ELSE IF args.contacts THEN Exit(run_contact_automation(st, env), 0)
             ELSE IF args.bolts THEN Exit(run_bolt_pretension_automation(st, env), 0)
             ELSE IF args.all THEN Exit(run_all(st, env), 0)
             ELSE Exit(st, 0))
        ELSE IF in_ansys THEN Exit(run_all(st, env), 0)
        ELSE Exit(interactive_mode(st, env, choices, 1), 0)

\* what the user types at the menu
RECURSIVE ChoiceSeqs(_)
ChoiceSeqs(n) ==
    IF n = 0 THEN {<<>>}
    ELSE ChoiceSeqs(n - 1)
           \cup {Append(c, x) : c \in ChoiceSeqs(n - 1), x \in {"1", "2", "3", "x"}}

InitCli ==
    /\ objs = DocAB
    /\ last = NoCall
    /\ runs = <<>>
    /\ config \in ContactFiles
    /\ csv = <<"absent">>

Envs == [file : {config}, front : Fronts(objs), faults : HostFaults]

\* python main.py <argv>, or the script run inside the host
MainPy ==
    /\ last = NoCall
    /\ \E argv \in Argvs, in_ansys \in BOOLEAN, env \in Envs :
       \E choices \in IF Interactive(argv, in_ansys) THEN ChoiceSeqs(MaxChoices)
                      ELSE {<<>>} :
       \E r \in {main_py(Age(objs), argv, in_ansys, choices, env)} :
           /\ objs' = r.objs
           /\ last' = [op |-> "main.py", argv |-> argv, in_ansys |-> in_ansys,
                       log |-> r.log, raised |-> r.raised, exit |-> r.exit]
           /\ runs' = Append(runs, [clean |-> env.faults.contacts \cup env.faults.bolts = {}])
           /\ UNCHANGED <<config, csv>>

\* run_all() called as a function
RunAll ==
    /\ last = NoCall
    /\ \E env \in Envs :
       \E r \in {run_all([objs |-> Age(objs), log |-> <<>>, raised |-> FALSE], env)} :
           /\ objs' = r.objs
           /\ last' = [op |-> "run_all", log |-> r.log, raised |-> r.raised]
           /\ runs' = Append(runs, [clean |-> env.faults.contacts \cup env.faults.bolts = {}])
           /\ UNCHANGED <<config, csv>>

NextCli == MainPy \/ RunAll

SpecCli == InitCli /\ [][NextCli]_vars

IsMainPy == last.op = "main.py"
IsRunAll == last.op = "run_all"

\* the positions of an event in a log
At(log, event) == {k \in 1..Len(log) : log[k] = event}

\* a run that reaches run_all directly: no arguments inside the host, or --all
PlainRun ==
    /\ IsMainPy
    /\ \/ last.argv = <<>> /\ last.in_ansys
       \/ last.argv = <<"--all">>

\* C13: main.py reaches the bolt force extraction: for the flag
\* --extract-forces it runs bolt_force_extraction.main, and a plain run
\* (run_all) has the postprocessing step after the preprocessing steps.
C13_ExtractionReached ==
    /\ (IsMainPy /\ last.argv = <<"--extract-forces">>)
          => (last.exit = 0 /\ At(last.log, "extract.start") # {})
    /\ (PlainRun /\ ~last.raised)
          => \E k \in At(last.log, "extract.start") :
                 \A j \in At(last.log, "bolts.end") : j < k

\* What the code does: --extract-forces is no argument of the parser, the
\* process ends with status 2 having run nothing; and no run of main.py
\* starts the extraction.
ExtractionNeverRuns ==
    IsMainPy =>
        /\ At(last.log, "extract.start") = {}
        /\ "--extract-forces" \in {last.argv[k] : k \in 1..Len(last.argv)}
              => (last.exit = 2 /\ last.log = <<>>)

\* C14: on every call of run_all, contact automation runs to completion
\* first and bolt pretension automation runs after it, each exactly once.
C14_BothInSequence ==
    IsRunAll =>
        /\ Cardinality(At(last.log, "contacts.start")) = 1
        /\ Cardinality(At(last.log, "contacts.end")) = 1
        /\ Cardinality(At(last.log, "bolts.start")) = 1
        /\ \A i \in At(last.log, "contacts.end"), j \in At(last.log, "bolts.start") :
               i < j

\* What holds: bolt pretension automation never starts before contact
\* automation has returned, and it starts exactly when it has; a call in
\* which contact automation raises ends there.
BoltsOnlyAfterContacts ==
    IsRunAll =>
        /\ Cardinality(At(last.log, "contacts.start")) = 1
        /\ \A j \in At(last.log, "bolts.start") :
               \E i \in At(last.log, "contacts.end") : i < j
        /\ IF At(last.log, "contacts.end") # {}
           THEN Cardinality(At(last.log, "bolts.start")) = 1
           ELSE /\ last.raised
                /\ last.log = <<"contacts.start", "contacts.raised">>

====
